---- MODULE Spec2Model ----
(***************************************************************************)
(* ErisPulse scaffold generator (src/ErisPulseScaffold/cli.py).            *)
(*                                                                         *)
(* State: the file tree below one target directory <output>/<name>, the    *)
(* position of the running command, the ProjectInfo it works on, and what  *)
(* it has shown on the console.  Every blocking filesystem call of the     *)
(* code is one step.  A command may be run again after it has ended; all   *)
(* runs of one behaviour use the same project name, because runs on        *)
(* different names work in disjoint trees.                                  *)
(*                                                                         *)
(* Text is a sequence of atoms: an atom is one character of the project    *)
(* name, or one literal chunk of a template.  A path is a sequence of      *)
(* components relative to the target directory, <<>> being the target      *)
(* directory itself.                                                       *)
(***************************************************************************)
EXTENDS Integers, Sequences, FiniteSets, TLC

VARIABLES fs, fs0, name, pc, entry, info, idx, written, shown, outcome, run, answer

vars == <<fs, fs0, name, pc, entry, info, idx, written, shown, outcome, run, answer>>

\* ---------------------------------------------------------------- bounds
MaxNameLen == 2
MaxRuns == 2

\* ---------------------------------------------------------------- text
HYPHEN == "-"
UNDERSCORE == "_"

Chars == {"a", "B", HYPHEN}

RECURSIVE SeqsUpTo(_, _)
SeqsUpTo(S, n) ==
    IF n = 0 THEN {<<>>}
    ELSE LET shorter == SeqsUpTo(S, n - 1)
         IN  shorter \cup {Append(s, c) : s \in {t \in shorter : Len(t) = n - 1}, c \in S}

\* Project names the prompt can answer with: non-empty, hyphens allowed; one
\* of them is also the name of a generated root file.
Names == (SeqsUpTo(Chars, MaxNameLen) \ {<<>>}) \cup {<<"LICENSE">>}

Descriptions == {<<"d">>}

\* str.lower(), atom by atom
LowerAtom(c) ==
    CASE c = "B" -> "b"
      [] c = "LICENSE" -> "license"
      [] OTHER -> c

lower(s) == [i \in 1..Len(s) |-> LowerAtom(s[i])]

\* str.replace(old, new) for one-character old and new: every occurrence
RECURSIVE replace(_, _, _)
replace(s, old, new) ==
    IF s = <<>> THEN <<>>
    ELSE <<IF Head(s) = old THEN new ELSE Head(s)>> \o replace(Tail(s), old, new)

\* str.split(sep): the list of the pieces between the separators
RECURSIVE split(_, _)
split(s, sep) ==
    IF s = <<>> THEN << <<>> >>
    ELSE LET rest == split(Tail(s), sep)
         IN  IF Head(s) = sep
             THEN << <<>> >> \o rest
             ELSE << <<Head(s)>> \o Head(rest) >> \o Tail(rest)

\* list[-1]
last(l) == l[Len(l)]

\* as package_name, but only the first hyphen is replaced
package_name_first_hyphen(n) ==
    LET hy == {k \in 1..Len(n) : n[k] = HYPHEN}
    IN  IF hy = {} THEN n
        ELSE LET m == CHOOSE k \in hy : \A j \in hy : k <= j
             IN  [k \in 1..Len(n) |-> IF k = m THEN UNDERSCORE ELSE n[k]]

\* project_info['name'].replace("-", "_")
package_name(n) == replace(n, HYPHEN, UNDERSCORE)

\* project_info['name'].split('-')[-1]
short_name(n) == last(split(n, HYPHEN))

\* ---------------------------------------------------------------- ProjectInfo
InfoKeys == {"type", "name", "description"}

PromptChoices == {"module", "cli", "adapter"}

\* a type the prompt never yields, for programmatic callers
AnyTypes == PromptChoices \cup {"plugin"}

MakeInfo(t, n, d) ==
    [k \in InfoKeys |-> CASE k = "type" -> t [] k = "name" -> n [] OTHER -> d]

EmptyInfo == [k \in {} |-> <<>>]

\* Python truthiness of a dict
Truthy(d) == DOMAIN d # {}

\* as _collect_project_info, but the refusal is not honoured
_collect_project_info_unconfirmed(t, n, d, confirmed) == MakeInfo(t, n, d)

\* _collect_project_info: the answers, or {} when the confirmation is refused
_collect_project_info(t, n, d, confirmed) ==
    IF ~confirmed THEN EmptyInfo ELSE MakeInfo(t, n, d)

\* ---------------------------------------------------------------- file tree
BASE == <<>>

F_PYPROJECT == <<"pyproject.toml">>
F_README == <<"README.md">>
F_LICENSE == <<"LICENSE">>
F_CORE == <<"Core.py">>
F_CLI == <<"cli.py">>
F_CONVERTER == <<"Converter.py">>
F_INIT == <<"__init__.py">>
F_NOTES == <<"notes.txt">>

NoText == <<>>

Content(text, key, mod, sym, src) ==
    [text |-> text, key |-> key, mod |-> mod, sym |-> sym, src |-> src]

\* an empty file, as left by open(..., 'w') when the write after it fails
EmptyContent == Content(NoText, NoText, NoText, NoText, NoText)

\* a file of the user's, not generated by this program
UserContent == Content(<<"user data">>, NoText, NoText, NoText, NoText)

DirNode == [kind |-> "dir", content |-> EmptyContent]
FileNode(c) == [kind |-> "file", content |-> c]

Exists(tree, p) == p \in DOMAIN tree
IsDir(tree, p) == Exists(tree, p) /\ tree[p].kind = "dir"
IsFile(tree, p) == Exists(tree, p) /\ tree[p].kind = "file"

Put(tree, p, node) ==
    [q \in DOMAIN tree \cup {p} |-> IF q = p THEN node ELSE tree[q]]

NoTree == [q \in {} |-> DirNode]

\* Path.mkdir(parents=True, exist_ok=True) on the target directory
\* result: <<ok, tree>>
mkdir_exist_ok(tree, p, fault) ==
    IF IsDir(tree, p) THEN <<TRUE, tree>>
    ELSE IF IsFile(tree, p) THEN <<FALSE, tree>>
    ELSE IF fault THEN <<FALSE, tree>>
    ELSE <<TRUE, Put(tree, p, DirNode)>>

\* Path.mkdir(): fails when the path exists
mkdir(tree, p, fault) ==
    IF Exists(tree, p) THEN <<FALSE, tree>>
    ELSE IF fault THEN <<FALSE, tree>>
    ELSE <<TRUE, Put(tree, p, DirNode)>>

\* Path.write_text(content): open for writing (creates or truncates), write.
\* fault "open": the open fails; fault "write": the write after it fails.
WriteFaults == {"none", "open", "write"}

write_text(tree, p, c, fault) ==
    IF IsDir(tree, p) THEN <<FALSE, tree>>
    ELSE IF fault = "open" THEN <<FALSE, tree>>
    ELSE IF fault = "write" THEN <<FALSE, Put(tree, p, FileNode(EmptyContent))>>
    ELSE <<TRUE, Put(tree, p, FileNode(c))>>

\* ---------------------------------------------------------------- templates
\* the [project] table and the entry-point table of a pyproject.toml
Pyproject(i, deps, group, key, sym) ==
    Content(<<"[project] name = ">> \o i["name"]
                \o <<" description = ">> \o i["description"]
                \o <<" dependencies = [">> \o deps
                \o <<"] [project.entry-points.">> \o group \o <<"] ">>
                \o key \o <<" = ">> \o package_name(i["name"]) \o <<":">> \o sym,
            key, package_name(i["name"]), sym, NoText)

Readme(i) ==
    Content(<<"# ">> \o i["name"] \o <<"\n\n">> \o i["description"],
            NoText, NoText, NoText, NoText)

License == Content(<<"MIT License ...">>, NoText, NoText, NoText, NoText)

\* a source stub that defines sym; tag is the lowercased name it carries
Stub(body, sym, tag) ==
    Content(body, tag, NoText, sym, NoText)

\* "from .<src> import <sym>"
InitFile(src, sym) ==
    Content(<<"from .">> \o src \o <<" import ">> \o sym, NoText, NoText, sym, src)

\* the file a relative import "from .<src>" loads
PyFile(src) ==
    CASE src = <<"Core">> -> F_CORE
      [] src = <<"cli">> -> F_CLI
      [] OTHER -> <<"?">>

Step(p, c) == [path |-> p, content |-> c]

ModuleCreator_pyproject(i) ==
    Pyproject(i, NoText, <<"erispulse.module">>, short_name(i["name"]), <<"Main">>)

ModuleCreator_core_file(i) ==
    Stub(<<"class Main: ">> \o short_name(i["name"]) \o <<" _load_config hello">>,
         <<"Main">>, NoText)

ModuleCreator_init_file(i) == InitFile(<<"Core">>, <<"Main">>)

\* as ModuleCreator_create, but __init__.py is written before Core.py
ModuleCreator_create_init_first(i) ==
    LET module_dir == package_name(i["name"])
    IN  << Step(<<F_PYPROJECT>>, ModuleCreator_pyproject(i)),
           Step(<<F_README>>, Readme(i)),
           Step(<<F_LICENSE>>, License),
           Step(<<module_dir, F_INIT>>, ModuleCreator_init_file(i)),
           Step(<<module_dir, F_CORE>>, ModuleCreator_core_file(i)) >>

\* ModuleCreator.create after module_dir.mkdir(): the writes, in order
ModuleCreator_create(i) ==
    LET module_dir == package_name(i["name"])
    IN  << Step(<<F_PYPROJECT>>, ModuleCreator_pyproject(i)),
           Step(<<F_README>>, Readme(i)),
           Step(<<F_LICENSE>>, License),
           Step(<<module_dir, F_CORE>>, ModuleCreator_core_file(i)),
           Step(<<module_dir, F_INIT>>, ModuleCreator_init_file(i)) >>

CLICreator_pyproject(i) ==
    Pyproject(i, <<"ErisPulse>=2.1.6">>, <<"erispulse.cli">>,
              lower(short_name(i["name"])), <<"cli_register">>)

CLICreator_cli_file(i) ==
    Stub(<<"def cli_register(subparsers, console): add_parser(">>
            \o lower(short_name(i["name"])) \o <<", help=">> \o i["description"]
            \o <<") --option handle_command">>,
         <<"cli_register">>, lower(short_name(i["name"])))

CLICreator_init_file(i) == InitFile(<<"cli">>, <<"cli_register">>)

CLICreator_create(i) ==
    LET module_dir == package_name(i["name"])
    IN  << Step(<<F_PYPROJECT>>, CLICreator_pyproject(i)),
           Step(<<F_README>>, Readme(i)),
           Step(<<F_LICENSE>>, License),
           Step(<<module_dir, F_CLI>>, CLICreator_cli_file(i)),
           Step(<<module_dir, F_INIT>>, CLICreator_init_file(i)) >>

AdapterCreator_pyproject(i) ==
    Pyproject(i, NoText, <<"erispulse.adapter">>,
              short_name(i["name"]), short_name(i["name"]))

AdapterCreator_core_file(i) ==
    LET adapter_name == short_name(i["name"])
    IN  Stub(<<"class ">> \o adapter_name
                \o <<"(BaseAdapter): _load_config Send call_api start shutdown">>,
             adapter_name, NoText)

AdapterCreator_converter_file(i) ==
    LET adapter_name == lower(short_name(i["name"]))
    IN  Stub(<<"class ">> \o short_name(i["name"]) \o <<"Converter: platform = ">>
                \o adapter_name \o <<" _handle_message _handle_notice">>,
             short_name(i["name"]) \o <<"Converter">>, adapter_name)

\* as AdapterCreator_init_file, but importing the module creator's symbol
AdapterCreator_init_file_main(i) == InitFile(<<"Core">>, <<"Main">>)

AdapterCreator_init_file(i) == InitFile(<<"Core">>, short_name(i["name"]))

\* as AdapterCreator_create, but without the converter
AdapterCreator_create_no_converter(i) ==
    LET module_dir == package_name(i["name"])
    IN  << Step(<<F_PYPROJECT>>, AdapterCreator_pyproject(i)),
           Step(<<F_README>>, Readme(i)),
           Step(<<F_LICENSE>>, License),
           Step(<<module_dir, F_CORE>>, AdapterCreator_core_file(i)),
           Step(<<module_dir, F_INIT>>, AdapterCreator_init_file(i)) >>

AdapterCreator_create(i) ==
    LET module_dir == package_name(i["name"])
    IN  << Step(<<F_PYPROJECT>>, AdapterCreator_pyproject(i)),
           Step(<<F_README>>, Readme(i)),
           Step(<<F_LICENSE>>, License),
           Step(<<module_dir, F_CORE>>, AdapterCreator_core_file(i)),
           Step(<<module_dir, F_CONVERTER>>, AdapterCreator_converter_file(i)),
           Step(<<module_dir, F_INIT>>, AdapterCreator_init_file(i)) >>

\* the creators table of _create_project_structure
creators == [t \in PromptChoices |->
               CASE t = "module" -> "ModuleCreator"
                 [] t = "cli" -> "CLICreator"
                 [] OTHER -> "AdapterCreator"]

\* creator.create(base_dir, project_info): the writes of the resolved creator
create(creator, i) ==
    CASE creator = "ModuleCreator" -> ModuleCreator_create(i)
      [] creator = "CLICreator" -> CLICreator_create(i)
      [] OTHER -> AdapterCreator_create(i)

\* ---------------------------------------------------------------- the command
\* trees the user can have at the target before the first run
InitialTrees ==
    {NoTree, Put(NoTree, BASE, FileNode(UserContent)), Put(NoTree, BASE, DirNode)}
    \cup {Put(Put(NoTree, BASE, DirNode), <<f>>, FileNode(UserContent)) :
            f \in {F_PYPROJECT, F_README, F_LICENSE, F_NOTES}}

Ended == {"idle", "returned", "raised"}

Init ==
    /\ name \in Names
    /\ fs \in InitialTrees
    /\ fs0 = fs
    /\ pc = "idle"
    /\ entry = "none"
    /\ info = EmptyInfo
    /\ idx = 0
    /\ written = <<>>
    /\ shown = <<>>
    /\ outcome = "none"
    /\ run = 0
    /\ answer = "none"

\* a new run of the command starts: handle_scaffold prints its banner
handle_scaffold ==
    /\ pc \in Ended
    /\ run < MaxRuns
    /\ run' = run + 1
    /\ pc' = "collect"
    /\ entry' = "handle_scaffold"
    /\ info' = EmptyInfo
    /\ idx' = 0
    /\ written' = <<>>
    /\ shown' = <<"banner">>
    /\ outcome' = "none"
    /\ fs0' = fs
    /\ answer' = "none"
    /\ UNCHANGED <<fs, name>>

\* project_info = _collect_project_info(console); if not project_info: return
CollectProjectInfo ==
    /\ pc = "collect"
    /\ \E t \in PromptChoices, d \in Descriptions, confirmed \in BOOLEAN :
         /\ info' = _collect_project_info(t, name, d, confirmed)
         /\ answer' = IF confirmed THEN "yes" ELSE "no"
         /\ IF ~Truthy(info')
            THEN /\ shown' = shown \o <<"info", "cancelled">>
                 /\ pc' = "returned"
                 /\ outcome' = "returned"
            ELSE /\ shown' = Append(shown, "info")
                 /\ pc' = "base_mkdir"
                 /\ outcome' = outcome
    /\ UNCHANGED <<fs, fs0, name, entry, idx, written, run>>

\* a programmatic caller runs _create_project_structure on a ProjectInfo of
\* its own making
_create_project_structure ==
    /\ pc \in Ended
    /\ run < MaxRuns
    /\ run' = run + 1
    /\ \E t \in AnyTypes, d \in Descriptions : info' = MakeInfo(t, name, d)
    /\ pc' = "base_mkdir"
    /\ entry' = "_create_project_structure"
    /\ idx' = 0
    /\ written' = <<>>
    /\ shown' = <<>>
    /\ outcome' = "none"
    /\ fs0' = fs
    /\ answer' = "none"
    /\ UNCHANGED <<fs, name>>

\* an exception leaves _create_project_structure: into the except clause of
\* handle_scaffold when that is the caller, else straight to the caller
Raise ==
    IF entry = "handle_scaffold"
    THEN pc' = "except" /\ outcome' = outcome
    ELSE pc' = "raised" /\ outcome' = "raised"

\* base_dir.mkdir(parents=True, exist_ok=True)
BaseMkdir ==
    /\ pc = "base_mkdir"
    /\ \E fault \in BOOLEAN :
         LET r == mkdir_exist_ok(fs, BASE, fault)
         IN  /\ fs' = r[2]
             /\ IF r[1] THEN pc' = "resolve" /\ outcome' = outcome ELSE Raise
    /\ UNCHANGED <<fs0, name, entry, info, idx, written, shown, run, answer>>

\* creator = creators[project_info['type']]()
Resolve ==
    /\ pc = "resolve"
    /\ IF info["type"] \in DOMAIN creators
       THEN pc' = "pkg_mkdir" /\ outcome' = outcome
       ELSE Raise
    /\ UNCHANGED <<fs, fs0, name, entry, info, idx, written, shown, run, answer>>

\* module_dir = base_dir / name.replace("-", "_"); module_dir.mkdir()
PkgMkdir ==
    /\ pc = "pkg_mkdir"
    /\ \E fault \in BOOLEAN :
         LET r == mkdir(fs, <<package_name(info["name"])>>, fault)
         IN  /\ fs' = r[2]
             /\ IF r[1]
                THEN pc' = "write" /\ idx' = 1 /\ outcome' = outcome
                ELSE Raise /\ idx' = idx
    /\ UNCHANGED <<fs0, name, entry, info, written, shown, run, answer>>

\* the next self._create_*(...) call of creator.create
WriteFile ==
    /\ pc = "write"
    /\ LET steps == create(creators[info["type"]], info)
           s == steps[idx]
       IN  \E fault \in WriteFaults :
             LET r == write_text(fs, s.path, s.content, fault)
             IN  /\ fs' = r[2]
                 /\ IF r[1]
                    THEN /\ written' = Append(written, s.path)
                         /\ outcome' = outcome
                         /\ IF idx < Len(steps)
                            THEN pc' = pc /\ idx' = idx + 1
                            ELSE pc' = "display" /\ idx' = idx
                    ELSE Raise /\ written' = written /\ idx' = idx
    /\ UNCHANGED <<fs0, name, entry, info, shown, run, answer>>

\* _display_result: the tree of base_dir, then the success panel; the
\* command returns
DisplayResult ==
    /\ pc = "display"
    /\ shown' = shown \o <<"tree", "success">>
    /\ pc' = "returned"
    /\ outcome' = "returned"
    /\ UNCHANGED <<fs, fs0, name, entry, info, idx, written, run, answer>>

\* as Except, but the error is shown and not re-raised
Except_swallowed ==
    /\ pc = "except"
    /\ shown' = Append(shown, "error")
    /\ pc' = "returned"
    /\ outcome' = "returned"
    /\ UNCHANGED <<fs, fs0, name, entry, info, idx, written, run, answer>>

\* except Exception as e: console.print(Panel(error)); raise
Except ==
    /\ pc = "except"
    /\ shown' = Append(shown, "error")
    /\ pc' = "raised"
    /\ outcome' = "raised"
    /\ UNCHANGED <<fs, fs0, name, entry, info, idx, written, run, answer>>

Next ==
    \/ handle_scaffold
    \/ CollectProjectInfo
    \/ _create_project_structure
    \/ BaseMkdir
    \/ Resolve
    \/ PkgMkdir
    \/ WriteFile
    \/ DisplayResult
    \/ Except

Spec == Init /\ [][Next]_vars

TypeOK ==
    /\ pc \in {"idle", "collect", "base_mkdir", "resolve", "pkg_mkdir", "write",
               "display", "except", "returned", "raised"}
    /\ run \in 0..MaxRuns
    /\ outcome \in {"none", "returned", "raised"}

\* ---------------------------------------------------------------- properties
\* name with every hyphen replaced by an underscore, position by position
Underscored(n) == [k \in 1..Len(n) |-> IF n[k] = "-" THEN "_" ELSE n[k]]

\* the part of name after its final hyphen, all of it when it has none
AfterFinalHyphen(n) ==
    LET hy == {k \in 1..Len(n) : n[k] = "-"}
    IN  IF hy = {} THEN n
        ELSE LET m == CHOOSE k \in hy : \A j \in hy : j <= k
             IN  [k \in 1..(Len(n) - m) |-> n[m + k]]

\* the package subdirectory the claims speak of
Pkg == <<Underscored(name)>>

Building == Truthy(info) /\ pc \notin {"idle", "collect"}
Succeeded == Truthy(info) /\ pc \in {"display", "returned"}
Failed == pc \in {"except", "raised"}

\* the target directory was absent or empty when the run began
Fresh == DOMAIN fs0 = {} \/ (DOMAIN fs0 = {BASE} /\ IsDir(fs0, BASE))

\* the target directory existed with something in it when the run began
NonEmptyTarget == IsDir(fs0, BASE) /\ DOMAIN fs0 # {BASE}

TargetFiles == {<<F_PYPROJECT>>, <<F_README>>, <<F_LICENSE>>}

\* C1: a build with a project type outside {module, cli, adapter} is rejected
\* before any file I/O: when the failure is raised the run has created
\* neither the target directory nor anything under it.
C1_RejectedBeforeIO ==
    (Building /\ Failed /\ info["type"] \notin {"module", "cli", "adapter"})
        => fs = fs0

\* C2: a build against a target directory that exists and is non-empty
\* always fails and leaves the files under it exactly as they were.
C2_RerunFailsUnchanged ==
    (Building /\ NonEmptyTarget) => (fs = fs0 /\ ~Succeeded)

\* C3: no file that existed at a target path before the build is ever
\* overwritten; a build that meets such a file fails.
C3_NoOverwrite ==
    Building =>
        /\ \A p \in DOMAIN fs0 : IsFile(fs0, p) => fs[p] = fs0[p]
        /\ Succeeded => \A p \in TargetFiles : ~IsFile(fs0, p)

\* C4: when the user refuses the confirmation (empty ProjectInfo),
\* handle_scaffold creates no directory, writes no file, runs no creator,
\* shows no error and returns normally.
C4_CancelIsNoOp ==
    (entry = "handle_scaffold" /\ answer = "no") =>
        /\ pc = "returned"
        /\ outcome = "returned"
        /\ fs = fs0
        /\ written = <<>>
        /\ ~Truthy(info)
        /\ shown = <<"banner", "info", "cancelled">>

C4_Witness ==
    entry = "handle_scaffold" /\ answer = "no" /\ pc = "returned" /\ run = 1

\* the file set of section 4.2, per type
ExpectedFiles(t) ==
    TargetFiles \cup
    CASE t = "module" -> {Pkg \o <<F_INIT>>, Pkg \o <<F_CORE>>}
      [] t = "cli" -> {Pkg \o <<F_INIT>>, Pkg \o <<F_CLI>>}
      [] OTHER -> {Pkg \o <<F_INIT>>, Pkg \o <<F_CORE>>, Pkg \o <<F_CONVERTER>>}

\* C5: a successful build into a fresh target leaves exactly the enumerated
\* file set under the target directory, every file non-empty.
C5_ExactFileSet ==
    (Succeeded /\ Fresh) =>
        /\ DOMAIN fs = {BASE, Pkg} \cup ExpectedFiles(info["type"])
        /\ IsDir(fs, BASE) /\ IsDir(fs, Pkg)
        /\ \A p \in ExpectedFiles(info["type"]) :
              IsFile(fs, p) /\ fs[p].content.text # <<>>

C5_Witness ==
    Succeeded /\ Fresh /\ info["type"] = "adapter" /\ pc = "returned"

\* C6: a failed build is fail-fast: after the failure nothing more is written,
\* what was written before stays in place, the success result is never shown,
\* and handle_scaffold shows the error and re-raises.
C6_FailFast ==
    [][ /\ (Failed /\ run' = run) =>
              /\ fs' = fs /\ written' = written
              /\ pc' \in {"except", "raised"}
        /\ (pc' \in {"except", "raised"}) =>
              /\ "success" \notin {shown'[k] : k \in 1..Len(shown')}
              /\ \A k \in 1..Len(written') :
                    /\ IsFile(fs', written'[k])
                    /\ fs'[written'[k]].content.text # <<>>
        /\ (pc' = "raised" /\ entry' = "handle_scaffold") =>
              /\ outcome' = "raised"
              /\ shown'[Len(shown')] = "error"
        /\ (pc' = "raised" /\ entry' = "_create_project_structure") =>
              outcome' = "raised"
      ]_vars

C6_Witness ==
    /\ pc = "raised" /\ entry = "handle_scaffold"
    /\ Len(written) = 3 /\ IsFile(fs, Pkg \o <<F_CORE>>)

WasWritten(p) == p \in {written[k] : k \in 1..Len(written)}

\* C7: the package subdirectory on disk and the module part of the manifest's
\* entry-point target are the name with every hyphen replaced by an
\* underscore; the short name in generated content is the part of the name
\* after its final hyphen.
C7_DerivedNames ==
    /\ (Building /\ pc \in {"write", "display", "returned"}) =>
          IsDir(fs, <<Underscored(info["name"])>>)
    /\ (Building /\ WasWritten(<<F_PYPROJECT>>)) =>
          LET c == fs[<<F_PYPROJECT>>].content
              s == AfterFinalHyphen(info["name"])
          IN  /\ c.mod = Underscored(info["name"])
              /\ c.key = IF info["type"] = "cli" THEN lower(s) ELSE s
    /\ (Building /\ info["type"] = "adapter") =>
          \A f \in {F_CORE, F_INIT} :
              WasWritten(<<Underscored(info["name"]), f>>) =>
                  fs[<<Underscored(info["name"]), f>>].content.sym
                      = AfterFinalHyphen(info["name"])

C7_Witness ==
    /\ Succeeded /\ info["type"] = "adapter"
    /\ info["name"] = <<"-", "-">>
    /\ IsDir(fs, << <<"_", "_">> >>)

\* C8: in a successful build the manifest's entry point maps the key derived
\* from the name (lowercased short name for cli, short name otherwise) to
\* the symbol (Main, cli_register, or the adapter class named by the short
\* name) that the package __init__ imports and the source stub defines.
C8_EntryPoint ==
    Succeeded =>
        LET t == info["type"]
            m == fs[<<F_PYPROJECT>>].content
            init == fs[Pkg \o <<F_INIT>>].content
            stub == Pkg \o <<PyFile(init.src)>>
            short == AfterFinalHyphen(name)
        IN  /\ m.key = IF t = "cli" THEN lower(short) ELSE short
            /\ m.sym = CASE t = "module" -> <<"Main">>
                         [] t = "cli" -> <<"cli_register">>
                         [] OTHER -> short
            /\ <<m.mod>> = Pkg /\ IsDir(fs, Pkg)
            /\ init.sym = m.sym
            /\ IsFile(fs, stub)
            /\ fs[stub].content.sym = m.sym

C8_Witness ==
    Succeeded /\ info["type"] = "cli" /\ name = <<"a", "B">> /\ pc = "returned"

\* the states of the section 4.3 state machine, in their order
Phase(p) ==
    CASE p \in {"idle", "collect"} -> 0
      [] p = "resolve" -> 1
      [] p \in {"base_mkdir", "pkg_mkdir"} -> 2
      [] p = "write" -> 3
      [] OTHER -> 4

\* C9: a run goes Idle, Resolving, Creating, Writing(i), Done or Failed in
\* that order, writes its files one at a time in the order of its type, and
\* does nothing after Done or Failed.
C9_StateOrder ==
    [][ run' = run =>
          /\ Phase(pc') >= Phase(pc)
          /\ (pc = "resolve") => fs = fs0
          /\ Len(written') \in {Len(written), Len(written) + 1}
          /\ (written' # <<>>) => IsDir(fs, BASE) /\ IsDir(fs, Pkg)
          /\ (pc \in {"returned", "raised"}) => UNCHANGED vars
      ]_vars

\* C10: in a build into a fresh target, whenever the package __init__
\* exists, so do the source file it imports from, the manifest, the README
\* and the LICENSE.
C10_InitLast ==
    (Building /\ Fresh /\ IsFile(fs, Pkg \o <<F_INIT>>)) =>
        /\ \A p \in TargetFiles : IsFile(fs, p)
        /\ IsFile(fs, Pkg \o <<IF info["type"] = "cli" THEN F_CLI ELSE F_CORE>>)
        /\ LET src == fs[Pkg \o <<F_INIT>>].content.src
           IN  src # NoText => IsFile(fs, Pkg \o <<PyFile(src)>>)

C10_Witness ==
    /\ Building /\ Fresh /\ Failed
    /\ IsFile(fs, Pkg \o <<F_INIT>>)
    /\ fs[Pkg \o <<F_INIT>>].content = EmptyContent

====
